---- MODULE Spec2Model ----
(***************************************************************************)
(* The cxx bridge of drivechain-cpp (src/bridge.rs) in front of the        *)
(* drivechain engine.  The bridge's marshalling (hex decoding, the         *)
(* collection of withdrawals and refunds into maps keyed by outpoint, the  *)
(* mapping of engine results to the values handed to the C++ caller) is    *)
(* translated from src/bridge.rs.  The engine behind `self.0` is not part  *)
(* of the source tree; its operations (named Engine_...) are modelled     *)
(* from the design document.                                               *)
(*                                                                         *)
(* Strings that the bridge decodes are sequences of one-character strings, *)
(* so that hex decoding is computed and not assumed.                       *)
(***************************************************************************)
EXTENDS Integers, Sequences, FiniteSets, TLC

\* ------------------------------------------------------------------ bounds
\* withdrawals and refunds, together, in one batch
MaxBatch == 2
\* deposits in one batch
MaxDeposits == 1
\* blocks connected at a time
MaxHeight == 1
\* bundles handed to the mainchain
MaxBroadcasts == 2
\* mainchain blocks mined after genesis
MaxBlocks == 2

\* ------------------------------------------------- program constants
\* let mut dest: [u8; 20]
AddrLen == 20
\* bitcoin::hash_types::{BlockHash, TxMerkleNode}: 32-byte hashes
HashLen == 32

\* ------------------------------------------------------------- hex codec
LowerHex == <<"0","1","2","3","4","5","6","7","8","9","a","b","c","d","e","f">>
UpperHex == <<"0","1","2","3","4","5","6","7","8","9","A","B","C","D","E","F">>

\* The value of each hex digit, in both cases.
HexDigitValue ==
    [c \in {LowerHex[i] : i \in 1..16} \cup {UpperHex[i] : i \in 1..16} |->
        IF \E i \in 1..16 : LowerHex[i] = c
        THEN (CHOOSE i \in 1..16 : LowerHex[i] = c) - 1
        ELSE (CHOOSE i \in 1..16 : UpperHex[i] = c) - 1]

\* The value of one hex digit, -1 for any other character.
HexVal(c) == IF c \in DOMAIN HexDigitValue THEN HexDigitValue[c] ELSE -1

\* hex::decode: odd length and non-hex characters are errors; both cases of
\* a digit decode to the same value.
hex_decode(s) ==
    IF Len(s) % 2 # 0
    THEN [ok |-> FALSE, val |-> <<>>, err |-> "OddLength"]
    ELSE IF \E i \in 1..Len(s) : HexVal(s[i]) < 0
    THEN [ok |-> FALSE, val |-> <<>>, err |-> "InvalidHexCharacter"]
    ELSE [ok |-> TRUE,
          val |-> [i \in 1..(Len(s) \div 2) |->
                      HexVal(s[2*i - 1]) * 16 + HexVal(s[2*i])],
          err |-> ""]

\* n copies of the string s.
RECURSIVE Rep(_, _)
Rep(s, n) == IF n = 0 THEN <<>> ELSE s \o Rep(s, n - 1)

Reverse(s) == [i \in 1..Len(s) |-> s[Len(s) + 1 - i]]

\* BlockHash::from_str / TxMerkleNode::from_str: 64 hex digits, stored in
\* the reverse of the displayed byte order.
hash_from_str(s) ==
    LET d == hex_decode(s) IN
    IF ~d.ok THEN d
    ELSE IF Len(d.val) # HashLen
    THEN [ok |-> FALSE, val |-> <<>>, err |-> "InvalidLength"]
    ELSE [ok |-> TRUE, val |-> Reverse(d.val), err |-> ""]

\* ------------------------------------------------------- results
RetOk(v) == [kind |-> "Ok", val |-> v, err |-> ""]
RetErr(e) == [kind |-> "Err", val |-> FALSE, err |-> e]
\* A panic inside an extern "Rust" function of a cxx bridge aborts the process.
RetPanic == [kind |-> "Panic", val |-> FALSE, err |-> "abort"]

EngOk == [ok |-> TRUE, err |-> ""]
EngErr(e) == [ok |-> FALSE, err |-> e]

EmptyMap == [k \in {} |-> 0]
MapPut(m, k, v) == [x \in (DOMAIN m) \cup {k} |-> IF x = k THEN v ELSE m[x]]
MapDrop(m, ks) == [x \in (DOMAIN m) \ ks |-> m[x]]
Range(s) == {s[i] : i \in 1..Len(s)}

VARIABLES
    deposits,      \* StateStore: deposits table (append-only sequence)
    withdrawals,   \* StateStore: withdrawals table keyed by outpoint
    refunds,       \* StateStore: refunds table keyed by outpoint
    spent,         \* StateStore: spent-outpoint set
    tip,           \* StateStore: last-connected mainchain block pointer (height)
    inFlight,      \* WithdrawalBundler: the bundle in flight (set of outpoints)
    broadcasts,    \* bundles handed to the mainchain so far
    mcParent,      \* mainchain: parent of each block
    mcCommit,      \* mainchain: BMM commitment carried by each block
    mcTip,         \* mainchain: current tip
    bmmAttempts,   \* BMMEngine: the tracked attempts
    latest,        \* the most recent attempt the engine accepted
    last           \* the call that just returned, with the state it ran in

storeVars == <<deposits, withdrawals, refunds, spent, tip>>
bundleVars == <<inFlight, broadcasts>>
mcVars == <<mcParent, mcCommit, mcTip>>
bmmVars == <<bmmAttempts, latest>>
vars == <<storeVars, bundleVars, mcVars, bmmVars, last>>

Store == [deposits |-> deposits, withdrawals |-> withdrawals,
          refunds |-> refunds, spent |-> spent, tip |-> tip]

\* ------------------------------------------------------------ the engine
\* drive::Drivechain::connect_block(deposits, withdrawals, refunds, just_check):
\* one transaction.  A batch that names an outpoint both as a withdrawal and
\* as a refund, or an outpoint that is already spent, is a DoubleSpend; a dry
\* run validates and rolls back; otherwise the deposits are appended, each
\* withdrawal is inserted with the inclusion height, each refund is recorded
\* and every touched outpoint is marked spent.
Engine_connect_block(s, deps, wmap, rmap, just_check) ==
    LET touched == (DOMAIN wmap) \cup (DOMAIN rmap) IN
    IF (DOMAIN wmap) \cap (DOMAIN rmap) # {}
    THEN [store |-> s, res |-> EngErr("DoubleSpend")]
    ELSE IF touched \cap (s.spent \cup DOMAIN s.withdrawals \cup DOMAIN s.refunds) # {}
    THEN [store |-> s, res |-> EngErr("DoubleSpend")]
    ELSE IF just_check
    THEN [store |-> s, res |-> EngOk]
    ELSE [store |->
            [deposits |-> s.deposits \o deps,
             withdrawals |->
                [o \in (DOMAIN s.withdrawals) \cup (DOMAIN wmap) |->
                    IF o \in DOMAIN wmap
                    THEN [wmap[o] EXCEPT !.height = s.tip + 1]
                    ELSE s.withdrawals[o]],
             refunds |->
                [o \in (DOMAIN s.refunds) \cup (DOMAIN rmap) |->
                    IF o \in DOMAIN rmap THEN rmap[o] ELSE s.refunds[o]],
             spent |-> s.spent \cup touched,
             tip |-> s.tip + 1],
          res |-> EngOk]

\* drive::Drivechain::disconnect_block(deposits, withdrawals, refunds,
\* just_check): the inverse transaction.  The deposits must be the last ones
\* recorded, the named withdrawals and refunds must be recorded; they are
\* removed, their outpoints un-marked and the tip retreats.
Engine_disconnect_block(s, deps, wouts, routs, just_check) ==
    LET n == Len(s.deposits)
        k == Len(deps)
        ws == Range(wouts)
        rs == Range(routs)
    IN
    IF s.tip = 0
    THEN [store |-> s, res |-> EngErr("NothingConnected")]
    ELSE IF k > n \/ SubSeq(s.deposits, n - k + 1, n) # deps
    THEN [store |-> s, res |-> EngErr("UnknownDeposit")]
    ELSE IF ~(ws \subseteq DOMAIN s.withdrawals)
    THEN [store |-> s, res |-> EngErr("UnknownWithdrawal")]
    ELSE IF ~(rs \subseteq DOMAIN s.refunds)
    THEN [store |-> s, res |-> EngErr("UnknownRefund")]
    ELSE IF just_check
    THEN [store |-> s, res |-> EngOk]
    ELSE [store |->
            [deposits |-> SubSeq(s.deposits, 1, n - k),
             withdrawals |-> MapDrop(s.withdrawals, ws),
             refunds |-> MapDrop(s.refunds, rs),
             spent |-> s.spent \ (ws \cup rs),
             tip |-> s.tip - 1],
          res |-> EngOk]

\* drive::Drivechain::is_outpoint_spent: membership in the spent set.
Engine_is_outpoint_spent(s, o) == o \in s.spent

\* ------------------------------------------------------------ the bridge
\* deposits.iter().map(|output| drive::Deposit {..}).collect()
to_deposits(ds) ==
    [i \in 1..Len(ds) |-> [address |-> ds[i].address, amount |-> ds[i].amount]]

\* withdrawals.into_iter().map(..).collect::<Result<HashMap<..>>>(): the
\* entries are decoded in order and the first error ends the collection; a
\* destination that is not AddrLen bytes long makes copy_from_slice panic;
\* a later entry with the same decoded outpoint replaces the earlier one.
RECURSIVE collect_withdrawals(_, _, _)
collect_withdrawals(ws, i, m) ==
    IF i > Len(ws)
    THEN [kind |-> "Ok", map |-> m, err |-> ""]
    ELSE LET a == hex_decode(ws[i].main_address) IN
         IF ~a.ok
         THEN [kind |-> "Err", map |-> EmptyMap, err |-> a.err]
         ELSE IF Len(a.val) # AddrLen
         THEN [kind |-> "Panic", map |-> EmptyMap, err |-> "abort"]
         ELSE LET o == hex_decode(ws[i].outpoint) IN
              IF ~o.ok
              THEN [kind |-> "Err", map |-> EmptyMap, err |-> o.err]
              ELSE collect_withdrawals(ws, i + 1,
                      MapPut(m, o.val,
                             [amount |-> ws[i].amount,
                              dest |-> a.val,
                              mainchain_fee |-> ws[i].main_fee,
                              height |-> 0]))

\* refunds.iter().map(..).collect::<Result<HashMap<Vec<u8>, u64>>>()
RECURSIVE collect_refunds(_, _, _)
collect_refunds(rs, i, m) ==
    IF i > Len(rs)
    THEN [kind |-> "Ok", map |-> m, err |-> ""]
    ELSE LET o == hex_decode(rs[i].outpoint) IN
         IF ~o.ok
         THEN [kind |-> "Err", map |-> EmptyMap, err |-> o.err]
         ELSE collect_refunds(rs, i + 1, MapPut(m, o.val, rs[i].amount))

\* outpoints.iter().map(|o| Ok(hex::decode(o)?.to_vec())).collect::<Result<Vec<_>>>()
RECURSIVE collect_outpoints(_, _, _)
collect_outpoints(os, i, acc) ==
    IF i > Len(os)
    THEN [kind |-> "Ok", vec |-> acc, err |-> ""]
    ELSE LET o == hex_decode(os[i]) IN
         IF ~o.ok
         THEN [kind |-> "Err", vec |-> <<>>, err |-> o.err]
         ELSE collect_outpoints(os, i + 1, Append(acc, o.val))

NotCalled(s, ret) == [store |-> s, ret |-> ret, eng |-> "NotCalled"]
Called(r) ==
    [store |-> r.store, ret |-> RetOk(r.res.ok),
     eng |-> IF r.res.ok THEN "Ok" ELSE r.res.err]

\* Mutant: the refunds are not handed to the engine.
connect_block_drops_refunds(s, ds, ws, rs, just_check) ==
    LET w == collect_withdrawals(ws, 1, EmptyMap)
        r == collect_refunds(rs, 1, EmptyMap)
    IN
    IF w.kind = "Panic" THEN NotCalled(s, RetPanic)
    ELSE IF w.kind = "Err" THEN NotCalled(s, RetErr(w.err))
    ELSE IF r.kind = "Err" THEN NotCalled(s, RetErr(r.err))
    ELSE Called(Engine_connect_block(s, to_deposits(ds), w.map, EmptyMap, just_check))

\* Mutant: just_check is not forwarded.
connect_block_ignores_just_check(s, ds, ws, rs, just_check) ==
    LET w == collect_withdrawals(ws, 1, EmptyMap)
        r == collect_refunds(rs, 1, EmptyMap)
    IN
    IF w.kind = "Panic" THEN NotCalled(s, RetPanic)
    ELSE IF w.kind = "Err" THEN NotCalled(s, RetErr(w.err))
    ELSE IF r.kind = "Err" THEN NotCalled(s, RetErr(r.err))
    ELSE Called(Engine_connect_block(s, to_deposits(ds), w.map, r.map, FALSE))

\* Mutant: the engine's verdict is dropped and the call reports success.
connect_block_reports_true(s, ds, ws, rs, just_check) ==
    LET w == collect_withdrawals(ws, 1, EmptyMap)
        r == collect_refunds(rs, 1, EmptyMap)
    IN
    IF w.kind = "Panic" THEN NotCalled(s, RetPanic)
    ELSE IF w.kind = "Err" THEN NotCalled(s, RetErr(w.err))
    ELSE IF r.kind = "Err" THEN NotCalled(s, RetErr(r.err))
    ELSE LET e == Engine_connect_block(s, to_deposits(ds), w.map, r.map, just_check)
         IN [store |-> e.store, ret |-> RetOk(TRUE),
             eng |-> IF e.res.ok THEN "Ok" ELSE e.res.err]

\* Drivechain::connect_block: both collections are built first (the panic of
\* the withdrawals happens there), then `withdrawals?` and `refunds?` return
\* the first error, then the engine is called and its result is reduced to
\* is_ok().
connect_block(s, ds, ws, rs, just_check) ==
    LET w == collect_withdrawals(ws, 1, EmptyMap)
        r == collect_refunds(rs, 1, EmptyMap)
    IN
    IF w.kind = "Panic" THEN NotCalled(s, RetPanic)
    ELSE IF w.kind = "Err" THEN NotCalled(s, RetErr(w.err))
    ELSE IF r.kind = "Err" THEN NotCalled(s, RetErr(r.err))
    ELSE Called(Engine_connect_block(s, to_deposits(ds), w.map, r.map, just_check))

\* Mutant: the withdrawal and refund outpoints are handed over in each
\* other's place.
disconnect_block_swaps_outpoints(s, ds, wos, ros, just_check) ==
    LET w == collect_outpoints(wos, 1, <<>>)
        r == collect_outpoints(ros, 1, <<>>)
    IN
    IF w.kind = "Err" THEN NotCalled(s, RetErr(w.err))
    ELSE IF r.kind = "Err" THEN NotCalled(s, RetErr(r.err))
    ELSE Called(Engine_disconnect_block(s, to_deposits(ds), r.vec, w.vec, just_check))

\* Drivechain::disconnect_block
disconnect_block(s, ds, wos, ros, just_check) ==
    LET w == collect_outpoints(wos, 1, <<>>)
        r == collect_outpoints(ros, 1, <<>>)
    IN
    IF w.kind = "Err" THEN NotCalled(s, RetErr(w.err))
    ELSE IF r.kind = "Err" THEN NotCalled(s, RetErr(r.err))
    ELSE Called(Engine_disconnect_block(s, to_deposits(ds), w.vec, r.vec, just_check))

\* Drivechain::is_outpoint_spent
is_outpoint_spent(s, outpoint) ==
    LET o == hex_decode(outpoint) IN
    IF ~o.ok THEN RetErr(o.err) ELSE RetOk(Engine_is_outpoint_spent(s, o.val))

\* ---------------------------------------------------------------- inputs
OutA == <<"0", "a">>
OutA2 == <<"0", "A">>
OutB == <<"0", "b">>
OutBad == <<"0", "g">>
OutpointStrs == {OutA, OutA2, OutB, OutBad}

AddrA == Rep(<<"0", "1">>, AddrLen)
AddrB == Rep(<<"a", "B">>, AddrLen)
AddrShort == <<"0", "1">>
AddrBadHex == Rep(<<"z", "z">>, AddrLen)

Wd(o, a, f, n) == [outpoint |-> o, main_address |-> a, main_fee |-> f, amount |-> n]
WithdrawalInputs ==
    {Wd(OutA, AddrA, 1, 5), Wd(OutA, AddrB, 2, 7),
     Wd(OutBad, AddrA, 1, 5), Wd(OutA, AddrShort, 1, 5), Wd(OutA, AddrBadHex, 1, 5)}
RefundInputs ==
    {[outpoint |-> OutA, amount |-> 5], [outpoint |-> OutB, amount |-> 5],
     [outpoint |-> OutBad, amount |-> 5]}
DepositInputs == {[address |-> "sc1abc", amount |-> 500000]}
\* disconnect_block is also handed a deposit that was never connected
UndoDepositInputs == DepositInputs \cup {[address |-> "sc1xyz", amount |-> 1]}

SeqsUpTo(S, n) == UNION {[1..k -> S] : k \in 0..n}

\* The batches handed to connect_block and to disconnect_block.
ConnectBatches ==
    {b \in [d : SeqsUpTo(DepositInputs, MaxDeposits),
            w : SeqsUpTo(WithdrawalInputs, MaxBatch),
            r : SeqsUpTo(RefundInputs, MaxBatch)] :
        Len(b.w) + Len(b.r) <= MaxBatch}
DisconnectBatches ==
    {b \in [d : SeqsUpTo(UndoDepositInputs, MaxDeposits),
            w : SeqsUpTo(OutpointStrs, MaxBatch),
            r : SeqsUpTo(OutpointStrs, MaxBatch)] :
        Len(b.w) + Len(b.r) <= MaxBatch}

OutpointsOf(xs) == [i \in 1..Len(xs) |-> xs[i].outpoint]

\* ---------------------------------------------------------------- actions
Idle == [op |-> "idle"]

SetStore(st) ==
    /\ deposits' = st.deposits
    /\ withdrawals' = st.withdrawals
    /\ refunds' = st.refunds
    /\ spent' = st.spent
    /\ tip' = st.tip

\* The caller takes the returned value.
Return ==
    /\ last.op # "idle"
    /\ last' = Idle
    /\ UNCHANGED <<storeVars, bundleVars, mcVars, bmmVars>>

\* connect_block(deposits, withdrawals, refunds, just_check) on one of the
\* given batches
ConnectBlockOf(batches, checks) ==
    /\ last.op = "idle"
    /\ \E b \in batches, jc \in checks :
         LET r == connect_block(Store, b.d, b.w, b.r, jc) IN
         /\ r.store.tip <= MaxHeight
         /\ Len(r.store.deposits) <= MaxHeight * MaxDeposits
         /\ SetStore(r.store)
         /\ last' = [op |-> "connect_block", d |-> b.d, w |-> b.w, r |-> b.r,
                     dry |-> jc, pre |-> Store, ret |-> r.ret, eng |-> r.eng]
    /\ UNCHANGED <<bundleVars, mcVars, bmmVars>>

ConnectBlock == ConnectBlockOf(ConnectBatches, BOOLEAN)

\* disconnect_block(deposits, withdrawals, refunds, just_check) with
\* arbitrary arguments
DisconnectBlockOf(batches, checks) ==
    /\ last.op = "idle"
    /\ \E b \in batches, jc \in checks :
         LET r == disconnect_block(Store, b.d, b.w, b.r, jc) IN
         /\ SetStore(r.store)
         /\ last' = [op |-> "disconnect_block", d |-> b.d, w |-> b.w, r |-> b.r,
                     dry |-> jc, pre |-> Store, ret |-> r.ret, eng |-> r.eng,
                     matching |-> FALSE, before |-> Store]
    /\ UNCHANGED <<bundleVars, mcVars, bmmVars>>

DisconnectBlock == DisconnectBlockOf(DisconnectBatches, BOOLEAN)

\* A reorganisation: the block that was just connected is disconnected, the
\* caller handing back its deposits and the outpoints of its withdrawals and
\* refunds.
ReorgDisconnect ==
    /\ last.op = "connect_block"
    /\ ~last.dry
    /\ last.ret = RetOk(TRUE)
    /\ LET r == disconnect_block(Store, last.d, OutpointsOf(last.w),
                                 OutpointsOf(last.r), FALSE) IN
         /\ SetStore(r.store)
         /\ last' = [op |-> "disconnect_block", d |-> last.d,
                     w |-> OutpointsOf(last.w), r |-> OutpointsOf(last.r),
                     dry |-> FALSE, pre |-> Store, ret |-> r.ret, eng |-> r.eng,
                     matching |-> TRUE, before |-> last.pre]
    /\ UNCHANGED <<bundleVars, mcVars, bmmVars>>

\* is_outpoint_spent(outpoint)
IsOutpointSpent ==
    /\ last.op = "idle"
    /\ \E o \in OutpointStrs :
         last' = [op |-> "is_outpoint_spent", arg |-> o, pre |-> Store,
                  ret |-> is_outpoint_spent(Store, o)]
    /\ UNCHANGED <<storeVars, bundleVars, mcVars, bmmVars>>

Init ==
    /\ deposits = <<>>
    /\ withdrawals = EmptyMap
    /\ refunds = EmptyMap
    /\ spent = {}
    /\ tip = 0
    /\ inFlight = [active |-> FALSE, set |-> {}]
    /\ broadcasts = <<>>
    /\ mcParent = <<>>
    /\ mcCommit = <<>>
    /\ mcTip = 0
    /\ bmmAttempts = <<>>
    /\ latest = [set |-> FALSE]
    /\ last = Idle

Next ==
    \/ ConnectBlock
    \/ DisconnectBlock
    \/ ReorgDisconnect
    \/ IsOutpointSpent
    \/ Return

Spec == Init /\ [][Next]_vars

\* ------------------------------------------------------- claims: batches
\* What a batch says, read off its strings.
HexOk(x) == hex_decode(x).ok
WellFormedWithdrawal(w) ==
    /\ HexOk(w.outpoint)
    /\ HexOk(w.main_address)
    /\ Len(hex_decode(w.main_address).val) = AddrLen
WellFormedBatch(ws, rs) ==
    /\ \A i \in 1..Len(ws) : WellFormedWithdrawal(ws[i])
    /\ \A i \in 1..Len(rs) : HexOk(rs[i].outpoint)
OutpointBytes(strs) == {hex_decode(strs[i]).val : i \in 1..Len(strs)}
Terms(w) == <<w.main_address, w.main_fee, w.amount>>
ConflictingWithdrawals(ws) ==
    \E i, j \in 1..Len(ws) :
        /\ hex_decode(ws[i].outpoint).val = hex_decode(ws[j].outpoint).val
        /\ Terms(ws[i]) # Terms(ws[j])

ConnectReturned == last.op = "connect_block"
Connected == ConnectReturned /\ ~last.dry /\ last.ret = RetOk(TRUE)
MatchingDisconnectReturned == last.op = "disconnect_block" /\ last.matching

C2_DryRunReadOnly ==
    (ConnectReturned /\ last.dry) => Store = last.pre

\* C2 witness: a dry run of a batch that a real run would have applied.
C2_Witness ==
    /\ ConnectReturned
    /\ last.dry
    /\ last.ret = RetOk(TRUE)
    /\ Len(last.d) = 1
    /\ Len(last.w) = 1

\* C3: a well-formed batch that names one outpoint both in its withdrawals
\* and in its refunds is refused by the engine as a DoubleSpend, the call
\* reports that nothing was applied, and the state is unchanged.
C3_DoubleSpendRejected ==
    (/\ ConnectReturned
     /\ WellFormedBatch(last.w, last.r)
     /\ OutpointBytes(OutpointsOf(last.w)) \cap OutpointBytes(OutpointsOf(last.r)) # {})
    => /\ last.eng = "DoubleSpend"
       /\ last.ret = RetOk(FALSE)
       /\ Store = last.pre

\* C3 witness: such a batch, with a deposit, handed over for real while the
\* outpoint was unspent.
C3_Witness ==
    /\ ConnectReturned
    /\ ~last.dry
    /\ WellFormedBatch(last.w, last.r)
    /\ Len(last.d) = 1
    /\ OutpointBytes(OutpointsOf(last.w)) \cap OutpointBytes(OutpointsOf(last.r)) # {}
    /\ last.pre.spent = {}

SpentStatus(s, o) == is_outpoint_spent(s, o)
Touched == OutpointBytes(last.w) \cup OutpointBytes(last.r)
TouchedByConnect == OutpointBytes(OutpointsOf(last.w)) \cup OutpointBytes(OutpointsOf(last.r))

\* C6: after a batch is connected every outpoint of its withdrawals and
\* refunds is reported spent and every other outpoint is reported as before;
\* after the matching disconnect the batch's outpoints are reported unspent
\* and every other outpoint is reported as it was before the connect.
C6_SpentStatus ==
    /\ Connected =>
         \A o \in OutpointStrs :
            IF HexOk(o) /\ hex_decode(o).val \in TouchedByConnect
            THEN SpentStatus(Store, o) = RetOk(TRUE)
            ELSE SpentStatus(Store, o) = SpentStatus(last.pre, o)
    /\ MatchingDisconnectReturned =>
         \A o \in OutpointStrs :
            IF HexOk(o) /\ hex_decode(o).val \in Touched
            THEN SpentStatus(Store, o) = RetOk(FALSE)
            ELSE /\ SpentStatus(Store, o) = SpentStatus(last.pre, o)
                 /\ SpentStatus(Store, o) = SpentStatus(last.before, o)

\* C6 witness: a withdrawal and a refund were connected and disconnected
\* again while another outpoint stayed spent.
C6_Witness ==
    /\ MatchingDisconnectReturned
    /\ Len(last.r) = 1
    /\ \E o \in OutpointStrs :
          /\ HexOk(o)
          /\ hex_decode(o).val \notin Touched
          /\ SpentStatus(Store, o) = RetOk(TRUE)

\* C8 (as claimed): a well-formed batch in which two withdrawals with
\* different terms claim the same outpoint is refused as a DoubleSpend.
C8_ConflictRejected ==
    (/\ ConnectReturned
     /\ WellFormedBatch(last.w, last.r)
     /\ ConflictingWithdrawals(last.w))
    => /\ last.eng = "DoubleSpend"
       /\ last.ret = RetOk(FALSE)

MalformedConnect ==
    ConnectReturned /\ ~WellFormedBatch(last.w, last.r)
MalformedDisconnect ==
    /\ last.op = "disconnect_block"
    /\ \E i \in 1..Len(last.w) \cup 1..Len(last.r) :
          \/ i <= Len(last.w) /\ ~HexOk(last.w[i])
          \/ i <= Len(last.r) /\ ~HexOk(last.r[i])

\* C9 (as claimed): a malformed outpoint or destination address makes
\* connect_block and disconnect_block return an error before the engine is
\* called, and the state is unchanged.
C9_MalformedRejected ==
    (MalformedConnect \/ MalformedDisconnect) =>
        /\ last.ret.kind = "Err"
        /\ last.eng = "NotCalled"
        /\ Store = last.pre

\* ------------------------------------------------------------------- BMM
\* The mainchain as the engine's client sees it: block 0 is genesis, block b
\* > 0 has parent mcParent[b] and carries the commitment mcCommit[b] (NoCommit
\* when it carries none); a commitment is anchored to the parent of the block
\* that carries it.
NoCommit == <<>>
BlockStr(b) == <<"b", LowerHex[b + 1]>> \o Rep(<<"0", "0">>, HashLen - 1)
BlockHashOf(b) == hash_from_str(BlockStr(b)).val
Blocks == 0..Len(mcParent)
KnownBlock(h) == \E b \in Blocks : BlockHashOf(b) = h
BlockOf(h) == CHOOSE b \in Blocks : BlockHashOf(b) = h
RECURSIVE IsAncestor(_, _)
IsAncestor(a, b) ==
    IF a = b THEN TRUE ELSE IF b = 0 THEN FALSE ELSE IsAncestor(a, mcParent[b])

\* drivechain::BMMState and ffi::BMMState
E_Succeded == "drivechain::BMMState::Succeded"
E_Failed == "drivechain::BMMState::Failed"
E_Pending == "drivechain::BMMState::Pending"
F_Succeded == "ffi::BMMState::Succeded"
F_Failed == "ffi::BMMState::Failed"
F_Pending == "ffi::BMMState::Pending"

\* drive::Drivechain::attempt_bmm: the bid is broadcast and becomes the one
\* tracked attempt; it is refused when the anchor is not the current tip.
Engine_attempt_bmm(attempts, critical_hash, prev_main_block_hash, amount, up) ==
    IF ~up
    THEN [attempts |-> attempts, res |-> EngErr("MainchainUnavailable")]
    ELSE IF prev_main_block_hash # BlockHashOf(mcTip)
    THEN [attempts |-> attempts, res |-> EngErr("StaleAnchor")]
    ELSE [attempts |->
            <<[critical_hash |-> critical_hash,
               prev_main_block_hash |-> prev_main_block_hash,
               amount |-> amount,
               state |-> E_Pending]>>,
          res |-> EngOk]

\* drive::Drivechain::confirm_bmm: a resolved attempt keeps its state; a
\* pending one stays pending while the tip is its anchor, succeeds when the
\* tip is a child of the anchor carrying its critical hash, fails otherwise.
Engine_confirm_bmm(attempts, up) ==
    IF ~up
    THEN [attempts |-> attempts, res |-> EngErr("MainchainUnavailable"), state |-> ""]
    ELSE IF attempts = <<>>
    THEN [attempts |-> attempts, res |-> EngErr("NoAttempt"), state |-> ""]
    ELSE LET a == attempts[1]
             st == IF a.state # E_Pending THEN a.state
                   ELSE IF BlockHashOf(mcTip) = a.prev_main_block_hash THEN E_Pending
                   ELSE IF /\ mcTip # 0
                           /\ BlockHashOf(mcParent[mcTip]) = a.prev_main_block_hash
                           /\ mcCommit[mcTip] = a.critical_hash
                   THEN E_Succeded
                   ELSE E_Failed
         IN [attempts |-> [attempts EXCEPT ![1].state = st], res |-> EngOk, state |-> st]

\* drive::Drivechain::verify_bmm: Ok when the named block carries the
\* critical hash, an error otherwise (also when the block cannot be looked up).
Engine_verify_bmm(main_block_hash, critical_hash, up) ==
    IF ~up THEN EngErr("MainchainUnavailable")
    ELSE IF ~KnownBlock(main_block_hash) THEN EngErr("UnknownBlock")
    ELSE IF BlockOf(main_block_hash) = 0 THEN EngErr("NoCommitment")
    ELSE IF mcCommit[BlockOf(main_block_hash)] # critical_hash THEN EngErr("Mismatch")
    ELSE EngOk

\* Mutant: Pending is reported as Failed.
bmm_state_pending_as_failed(state) ==
    CASE state = E_Succeded -> F_Succeded
      [] state = E_Failed -> F_Failed
      [] state = E_Pending -> F_Failed

\* Mutant: Succeded and Failed are exchanged.
bmm_state_exchanged(state) ==
    CASE state = E_Succeded -> F_Failed
      [] state = E_Failed -> F_Succeded
      [] state = E_Pending -> F_Pending

\* .map(|state| match state { .. }) of Drivechain::confirm_bmm
bmm_state_to_ffi(state) ==
    CASE state = E_Succeded -> F_Succeded
      [] state = E_Failed -> F_Failed
      [] state = E_Pending -> F_Pending

\* Drivechain::confirm_bmm
confirm_bmm(attempts, up) ==
    LET e == Engine_confirm_bmm(attempts, up) IN
    IF e.res.ok
    THEN [attempts |-> e.attempts,
          ret |-> [kind |-> "Ok", val |-> bmm_state_to_ffi(e.state), err |-> ""]]
    ELSE [attempts |-> e.attempts,
          ret |-> [kind |-> "Err", val |-> "", err |-> e.res.err]]

\* Drivechain::attempt_bmm
attempt_bmm(attempts, critical_hash, prev_main_block_hash, amount, up) ==
    LET c == hash_from_str(critical_hash)
        p == hash_from_str(prev_main_block_hash)
    IN
    IF ~c.ok THEN [attempts |-> attempts, ret |-> RetErr(c.err)]
    ELSE IF ~p.ok THEN [attempts |-> attempts, ret |-> RetErr(p.err)]
    ELSE LET e == Engine_attempt_bmm(attempts, c.val, p.val, amount, up) IN
         [attempts |-> e.attempts,
          ret |-> IF e.res.ok THEN RetOk(TRUE) ELSE RetErr(e.res.err)]

\* Mutant: the engine's error is handed on instead of being reduced to false.
verify_bmm_propagates(main_block_hash, critical_hash, up) ==
    LET b == hash_from_str(main_block_hash)
        c == hash_from_str(critical_hash)
    IN
    IF ~b.ok THEN RetErr(b.err)
    ELSE IF ~c.ok THEN RetErr(c.err)
    ELSE LET e == Engine_verify_bmm(b.val, c.val, up) IN
         IF e.ok THEN RetOk(TRUE) ELSE RetErr(e.err)

\* Drivechain::verify_bmm
verify_bmm(main_block_hash, critical_hash, up) ==
    LET b == hash_from_str(main_block_hash)
        c == hash_from_str(critical_hash)
    IN
    IF ~b.ok THEN RetErr(b.err)
    ELSE IF ~c.ok THEN RetErr(c.err)
    ELSE RetOk(Engine_verify_bmm(b.val, c.val, up).ok)

\* inputs
CritA == <<"c", "1">> \o Rep(<<"0", "0">>, HashLen - 1)
CritB == <<"C", "2">> \o Rep(<<"0", "0">>, HashLen - 1)
CritShort == <<"c", "1">>
CriticalStrs == {CritA, CritB, CritShort}
Commitments == {NoCommit, hash_from_str(CritA).val, hash_from_str(CritB).val}
UnknownBlockStr == <<"e", "e">> \o Rep(<<"0", "0">>, HashLen - 1)
BadBlockStr == <<"b", "0", "0">>
BlockStrs == {BlockStr(b) : b \in 0..MaxBlocks} \cup {UnknownBlockStr, BadBlockStr}
Amounts == {1000}

\* The mainchain gains a block, which becomes the tip; a parent other than
\* the tip stands for a reorganisation onto another branch.
MineBlock ==
    /\ last.op = "idle"
    /\ Len(mcParent) < MaxBlocks
    /\ \E p \in Blocks, c \in Commitments :
         /\ mcParent' = Append(mcParent, p)
         /\ mcCommit' = Append(mcCommit, c)
         /\ mcTip' = Len(mcParent) + 1
    /\ last' = [op |-> "mine_block", pre |-> bmmAttempts]
    /\ UNCHANGED <<storeVars, bundleVars, bmmVars>>

\* attempt_bmm(critical_hash, prev_main_block_hash, amount)
AttemptBmm ==
    /\ last.op = "idle"
    /\ \E c \in CriticalStrs, p \in BlockStrs, n \in Amounts, up \in BOOLEAN :
         LET r == attempt_bmm(bmmAttempts, c, p, n, up) IN
         /\ bmmAttempts' = r.attempts
         /\ latest' =
              IF r.ret.kind = "Ok"
              THEN [set |-> TRUE,
                    critical_hash |-> hash_from_str(c).val,
                    prev_main_block_hash |-> hash_from_str(p).val,
                    superseded |->
                        IF bmmAttempts # <<>> /\ bmmAttempts[1].state = E_Pending
                        THEN {bmmAttempts[1].critical_hash} ELSE {}]
              ELSE latest
         /\ last' = [op |-> "attempt_bmm", critical_hash |-> c,
                     prev_main_block_hash |-> p, amount |-> n,
                     pre |-> bmmAttempts, ret |-> r.ret]
    /\ UNCHANGED <<storeVars, bundleVars, mcVars>>

\* confirm_bmm()
ConfirmBmm ==
    /\ last.op = "idle"
    /\ \E up \in BOOLEAN :
         LET r == confirm_bmm(bmmAttempts, up) IN
         /\ bmmAttempts' = r.attempts
         /\ last' = [op |-> "confirm_bmm", pre |-> bmmAttempts, ret |-> r.ret]
    /\ UNCHANGED <<storeVars, bundleVars, mcVars, latest>>

\* verify_bmm(main_block_hash, critical_hash)
VerifyBmm ==
    /\ last.op = "idle"
    /\ \E b \in BlockStrs, c \in CriticalStrs, up \in BOOLEAN :
         last' = [op |-> "verify_bmm", main_block_hash |-> b, critical_hash |-> c,
                  up |-> up, pre |-> bmmAttempts, ret |-> verify_bmm(b, c, up)]
    /\ UNCHANGED <<storeVars, bundleVars, mcVars, bmmVars>>

NextBmm ==
    \/ MineBlock
    \/ AttemptBmm
    \/ ConfirmBmm
    \/ VerifyBmm
    \/ Return

SpecBmm == Init /\ [][NextBmm]_vars

\* ----------------------------------------------------------- claims: BMM
SameBmmState(e, f) ==
    \/ e = E_Succeded /\ f = F_Succeded
    \/ e = E_Failed /\ f = F_Failed
    \/ e = E_Pending /\ f = F_Pending

\* The commitment the tip carries, with its anchor.
TipCarries(critical_hash, prev_main_block_hash) ==
    /\ mcTip # 0
    /\ mcCommit[mcTip] = critical_hash
    /\ BlockHashOf(mcParent[mcTip]) = prev_main_block_hash

AttemptAccepted == last.op = "attempt_bmm" /\ last.ret.kind = "Ok"
ConfirmedPending ==
    /\ last.op = "confirm_bmm"
    /\ last.ret.kind = "Ok"
    /\ last.pre[1].state = E_Pending

\* C4: an accepted attempt_bmm leaves the attempt Pending with the submitted
\* hashes, and it stays as it is until confirm_bmm runs; confirm_bmm on a
\* pending attempt makes it Succeded exactly when the tip carries the
\* submitted critical hash anchored to the submitted previous block, Failed
\* when the tip has moved without that or the previous block is no longer an
\* ancestor of the tip, and leaves it Pending while the tip has not moved;
\* the caller gets the engine's state.
C4_BmmStateMachine ==
    /\ AttemptAccepted =>
         /\ Len(bmmAttempts) = 1
         /\ bmmAttempts[1].state = E_Pending
         /\ bmmAttempts[1].critical_hash = hash_from_str(last.critical_hash).val
         /\ bmmAttempts[1].prev_main_block_hash = hash_from_str(last.prev_main_block_hash).val
    /\ last.op \in {"mine_block", "verify_bmm"} => bmmAttempts = last.pre
    /\ ConfirmedPending =>
         LET was == last.pre[1]
             now == bmmAttempts[1]
             matches == TipCarries(was.critical_hash, was.prev_main_block_hash)
             anchor == BlockOf(was.prev_main_block_hash)
         IN /\ now = [was EXCEPT !.state = now.state]
            /\ now.state = E_Succeded <=> matches
            /\ (mcTip # anchor /\ ~matches) => now.state = E_Failed
            /\ ~IsAncestor(anchor, mcTip) => now.state = E_Failed
            /\ mcTip = anchor => now.state = E_Pending
            /\ SameBmmState(now.state, last.ret.val)

\* C4 witness: a pending attempt was confirmed as Succeded.
C4_Witness ==
    /\ ConfirmedPending
    /\ last.ret.val = F_Succeded

WellFormedVerify ==
    /\ last.op = "verify_bmm"
    /\ hash_from_str(last.main_block_hash).ok
    /\ hash_from_str(last.critical_hash).ok
BlockCarries(main_block_hash, critical_hash) ==
    \E b \in Blocks \ {0} :
        /\ BlockHashOf(b) = main_block_hash
        /\ mcCommit[b] = critical_hash

\* C5: verify_bmm changes nothing and, for a block hash and a critical hash
\* that parse, returns a boolean and never an error: true when the block is
\* known, the mainchain answers and the block carries the critical hash,
\* false in every other case.
C5_VerifyIsBoolean ==
    /\ last.op = "verify_bmm" => bmmAttempts = last.pre
    /\ WellFormedVerify =>
         /\ last.ret.kind = "Ok"
         /\ last.ret.val = TRUE =>
              BlockCarries(hash_from_str(last.main_block_hash).val,
                           hash_from_str(last.critical_hash).val)
         /\ (/\ last.up
             /\ BlockCarries(hash_from_str(last.main_block_hash).val,
                             hash_from_str(last.critical_hash).val))
            => last.ret.val = TRUE

\* C5 witness: the lookup of the block failed and the answer was false.
C5_Witness ==
    /\ WellFormedVerify
    /\ last.main_block_hash = UnknownBlockStr
    /\ last.ret = RetOk(FALSE)

\* C10: at most one attempt is tracked; an accepted attempt is the only one
\* tracked afterwards; the tracked attempt is always the most recent accepted
\* one, and confirm_bmm reports Succeded only when the tip carries that one.
C10_OneAttempt ==
    /\ Len(bmmAttempts) <= 1
    /\ bmmAttempts # <<>> <=> latest.set
    /\ latest.set =>
         /\ bmmAttempts[1].critical_hash = latest.critical_hash
         /\ bmmAttempts[1].prev_main_block_hash = latest.prev_main_block_hash
    /\ (/\ last.op = "confirm_bmm"
        /\ last.ret.kind = "Ok"
        /\ last.ret.val = F_Succeded)
       => \/ TipCarries(latest.critical_hash, latest.prev_main_block_hash)
          \/ last.pre[1].state = E_Succeded

\* C10 witness: an attempt replaced a pending one, the tip then carried the
\* replaced attempt's critical hash, and confirm_bmm reported Failed.
C10_Witness ==
    /\ last.op = "confirm_bmm"
    /\ last.ret.kind = "Ok"
    /\ last.ret.val = F_Failed
    /\ last.pre[1].state = E_Pending
    /\ \E c \in latest.superseded :
          /\ c # latest.critical_hash
          /\ TipCarries(c, latest.prev_main_block_hash)

\* ---------------------------------------------------------------- bundles
\* Mutant: the bundle is sent whether or not one is in flight.
Engine_attempt_bundle_broadcast_always(s, inflight, sent, resp) ==
    LET pending == DOMAIN s.withdrawals IN
    IF pending = {}
    THEN [inflight |-> inflight, sent |-> sent, res |-> EngErr("NoPendingWithdrawals")]
    ELSE IF resp = "unavailable"
    THEN [inflight |-> inflight, sent |-> sent, res |-> EngErr("MainchainUnavailable")]
    ELSE IF resp = "rejected"
    THEN [inflight |-> inflight, sent |-> Append(sent, pending),
          res |-> EngErr("BroadcastRejected")]
    ELSE [inflight |-> [active |-> TRUE, set |-> pending],
          sent |-> Append(sent, pending), res |-> EngOk]

\* drive::Drivechain::attempt_bundle_broadcast: the pending withdrawals make
\* one bundle; nothing is sent when there are none or when the bundle in
\* flight is over the same withdrawals; a bundle the mainchain accepts is in
\* flight, one it rejects is not.
Engine_attempt_bundle_broadcast(s, inflight, sent, resp) ==
    LET pending == DOMAIN s.withdrawals IN
    IF pending = {}
    THEN [inflight |-> inflight, sent |-> sent, res |-> EngErr("NoPendingWithdrawals")]
    ELSE IF inflight.active /\ inflight.set = pending
    THEN [inflight |-> inflight, sent |-> sent, res |-> EngOk]
    ELSE IF resp = "unavailable"
    THEN [inflight |-> inflight, sent |-> sent, res |-> EngErr("MainchainUnavailable")]
    ELSE IF resp = "rejected"
    THEN [inflight |-> inflight, sent |-> Append(sent, pending),
          res |-> EngErr("BroadcastRejected")]
    ELSE [inflight |-> [active |-> TRUE, set |-> pending],
          sent |-> Append(sent, pending), res |-> EngOk]

\* Drivechain::attempt_bundle_broadcast
attempt_bundle_broadcast(s, inflight, sent, resp) ==
    LET e == Engine_attempt_bundle_broadcast(s, inflight, sent, resp) IN
    [inflight |-> e.inflight, sent |-> e.sent,
     ret |-> IF e.res.ok THEN RetOk(TRUE) ELSE RetErr(e.res.err)]

BundleBatches ==
    {b \in [d : {<<>>},
            w : SeqsUpTo({Wd(OutA, AddrA, 1, 5), Wd(OutB, AddrB, 2, 7)}, MaxBatch),
            r : {<<>>}] : b.w # <<>>}
BundleUndoBatches ==
    {b \in [d : {<<>>}, w : SeqsUpTo({OutA, OutB}, 1), r : {<<>>}] : b.w # <<>>}
MainchainAnswers == {"accepted", "rejected", "unavailable"}

\* a block with withdrawals is connected
ConnectWithdrawals == ConnectBlockOf(BundleBatches, {FALSE})

\* a block with a withdrawal is disconnected
DisconnectWithdrawals == DisconnectBlockOf(BundleUndoBatches, {FALSE})

\* attempt_bundle_broadcast()
AttemptBundleBroadcast ==
    /\ last.op = "idle"
    /\ \E resp \in MainchainAnswers :
         LET r == attempt_bundle_broadcast(Store, inFlight, broadcasts, resp) IN
         /\ Len(r.sent) <= MaxBroadcasts
         /\ inFlight' = r.inflight
         /\ broadcasts' = r.sent
         /\ last' = [op |-> "attempt_bundle_broadcast", pre |-> Store,
                     inflight |-> inFlight, sent |-> broadcasts, ret |-> r.ret]
    /\ UNCHANGED <<storeVars, mcVars, bmmVars>>

\* The bundle in flight is no longer in flight (the mainchain dropped it).
BundleDropped ==
    /\ last.op = "idle"
    /\ inFlight.active
    /\ inFlight' = [active |-> FALSE, set |-> {}]
    /\ last' = [op |-> "bundle_dropped"]
    /\ UNCHANGED <<storeVars, broadcasts, mcVars, bmmVars>>

NextBundle ==
    \/ ConnectWithdrawals
    \/ DisconnectWithdrawals
    \/ AttemptBundleBroadcast
    \/ BundleDropped
    \/ Return

SpecBundle == Init /\ [][NextBundle]_vars

\* ------------------------------------------------------- claims: bundles
BroadcastReturned == last.op = "attempt_bundle_broadcast"
SameBundleInFlight ==
    /\ BroadcastReturned
    /\ last.inflight.active
    /\ last.inflight.set = DOMAIN last.pre.withdrawals

\* C7: when attempt_bundle_broadcast is called while a bundle over the
\* pending withdrawals is in flight, nothing is sent to the mainchain and the
\* bundle in flight stays as it is.
C7_NoDuplicateBroadcast ==
    SameBundleInFlight =>
        /\ broadcasts = last.sent
        /\ inFlight = last.inflight
        /\ last.ret = RetOk(TRUE)

\* C7 witness: a second call over the same pending withdrawals returned.
C7_Witness ==
    /\ SameBundleInFlight
    /\ broadcasts # <<>>
    /\ Cardinality(last.inflight.set) = 2

====
